---- MODULE Spec2Model ----
(***************************************************************************)
(* Warbler (flask-warbler): the request handlers of app.py over the        *)
(* relational store (users, messages, follows, likes) and one browser      *)
(* session.  Every handler is one action; the response it returns is kept  *)
(* in resp.                                                                *)
(***************************************************************************)
EXTENDS Integers, Sequences, FiniteSets, Bags, TLC

VARIABLES users, next_user_id, messages, next_message_id, follows, likes,
          session, now, resp, pending

vars == <<users, next_user_id, messages, next_message_id, follows, likes,
          session, now, resp, pending>>

db == <<users, next_user_id, messages, next_message_id, follows, likes>>

(***************************************************************************)
(* Bounds of the model and constants of the program.                       *)
(***************************************************************************)
\* user ids handed out by the users table's serial
MaxUserId == 2
\* message ids handed out by the messages table's serial
MaxMessageId == 2
\* last value of the clock
MaxTime == 1
\* how far over the feed's limit the larger bulk-loaded store lies
BulkSlack == 1
\* profile updates that may be between their checks and their commit
MaxPending == 2
\* .limit(100) of the homepage query
FeedLimit == 100
\* no CURR_USER_KEY in the session / g.user = None
NoUser == 0

Usernames == {"u1", "u2"}
Emails == {"u1@email.com", "u2@email.com"}
Passwords == {"password", "wrong-wrong"}
\* the address a user of that name signs up with
EmailOf(username) == IF username = "u1" THEN "u1@email.com" ELSE "u2@email.com"
Texts == {"hello"}
Methods == {"GET", "POST"}

\* User.image_url.default.arg, User.header_image_url.default.arg
DEFAULT_IMAGE_URL == "/static/images/default-pic.png"
DEFAULT_HEADER_IMAGE_URL == "/static/images/warbler-hero.jpg"

(***************************************************************************)
(* The store.                                                              *)
(***************************************************************************)
\* bcrypt.generate_password_hash: the stored value is never the plaintext
Hash(password) == <<"bcrypt", password>>

\* bcrypt.check_password_hash
CheckHash(hashed, password) == hashed = Hash(password)

\* User.signup: hash the password and build the row
UserSignup(username, email, password, image_url) ==
    [username |-> username, email |-> email, password |-> Hash(password),
     image_url |-> image_url, header_image_url |-> DEFAULT_HEADER_IMAGE_URL,
     bio |-> "", location |-> ""]

\* User.authenticate: the user with that username whose hash matches, or None
Authenticate(us, username, password) ==
    LET found == {u \in DOMAIN us : us[u].username = username
                                    /\ CheckHash(us[u].password, password)}
    IN  IF found = {} THEN NoUser ELSE CHOOSE u \in found : TRUE

\* the unique constraints on users.username and users.email, raised at commit
IntegrityError(us, row) ==
    \E u \in DOMAIN us :
        us[u].username = row.username \/ us[u].email = row.email

\* a row added to / removed from an association table
AddEdge(edges, e) == edges (+) SetToBag({e})

RemoveEdge(edges, e) == [x \in (DOMAIN edges) \ {e} |-> edges[x]]

\* the rows of an association table that survive the deletion of a user
\* (position 1 or 2 of the row) or of messages (position 2 of a like)
EdgesWithout(edges, pos, gone) ==
    [x \in {y \in DOMAIN edges : y[pos] \notin gone} |-> edges[x]]

\* user.following, user.messages_liked, user.messages
Following(u) == {e[2] : e \in {x \in DOMAIN follows : x[1] = u}}

MessagesLiked(u) == {e[2] : e \in {x \in DOMAIN likes : x[1] = u}}

UserMessages(u) == {m \in DOMAIN messages : messages[m].user_id = u}

(***************************************************************************)
(* Request plumbing.                                                       *)
(***************************************************************************)
\* a g.user that is whatever id the session holds
GUser_trusting == session

\* add_user_to_g: the user the session names, None when it names none
GUser == IF session \in DOMAIN users THEN session ELSE NoUser

\* FlaskForm.validate_on_submit: a POST carrying a valid anti-forgery token
validate_on_submit(method, csrf) == method = "POST" /\ csrf

\* the request a response answers: the route, whether its form validated
\* (for a GET route, FALSE) and the ids in its path
Req(route, valid, args) == [route |-> route, valid |-> valid, args |-> args]

Response(request, status, flash, template, location) ==
    [request |-> request, status |-> status, flash |-> flash,
     template |-> template, location |-> location,
     errors |-> {}, feed |-> <<>>]

\* raise Unauthorized() / get_or_404
Abort(request, status) == Response(request, status, "", "", <<>>)

Redirect(request, flash, location) ==
    Response(request, 302, flash, "", location)

Render(request, flash, template) ==
    Response(request, 200, flash, template, <<>>)

\* a guard that asks for the token and not for the user
NotPermitted_token_only(csrf) == ~validate_on_submit("POST", csrf)

\* a guard that asks for the user and not for the token
NotPermitted_user_only(csrf) == GUser = NoUser

\* not form.validate_on_submit() or not g.user, on g.csrf_form
NotPermitted(csrf) == ~validate_on_submit("POST", csrf) \/ GUser = NoUser

\* a read route without the check on g.user
Gated_open(request, content) == content

\* if not g.user: flash("Access unauthorized."); return redirect("/")
Gated(request, content) ==
    IF GUser = NoUser
    THEN Redirect(request, "Access unauthorized.", <<"/">>)
    ELSE content

\* an image field that is stored as it was typed, blank or not
OrDefault_blank(data, default) == data

\* form.image_url.data or User.image_url.default.arg
OrDefault(data, default) == IF data = "" THEN default ELSE data

(***************************************************************************)
(* Signup, login, logout.                                                  *)
(***************************************************************************)
\* a signup or login that leaves the session without the user
do_login_nobody(u) == session' = NoUser

\* do_login
do_login(u) == session' = u

\* a logout that leaves the key in the session
do_logout_stays == UNCHANGED session

\* do_logout
do_logout == session' = NoUser

\* a duplicate signup that shows the form again without saying why
signup_taken_silent ==
    /\ resp' = Render(Req("signup", TRUE, <<>>), "", "users/signup.html")
    /\ do_logout
    /\ UNCHANGED <<db, now, pending>>

\* the except IntegrityError branch of signup
signup_taken ==
    /\ resp' = Render(Req("signup", TRUE, <<>>),
                      "Username or email already taken", "users/signup.html")
    /\ do_logout
    /\ UNCHANGED <<db, now, pending>>

signup(method, csrf, username, email, password, image_url) ==
    IF validate_on_submit(method, csrf)
    THEN LET row == UserSignup(username, email, password,
                               OrDefault(image_url, DEFAULT_IMAGE_URL))
         IN  IF IntegrityError(users, row)
             THEN signup_taken
             ELSE /\ users' = [u \in DOMAIN users \cup {next_user_id} |->
                                 IF u = next_user_id THEN row ELSE users[u]]
                  /\ next_user_id' = next_user_id + 1
                  /\ do_login(next_user_id)
                  /\ resp' = Redirect(Req("signup", TRUE, <<>>), "", <<"/">>)
                  /\ UNCHANGED <<messages, next_message_id, follows, likes,
                                 now, pending>>
    ELSE /\ do_logout
         /\ resp' = Render(Req("signup", FALSE, <<>>), "", "users/signup.html")
         /\ UNCHANGED <<db, now, pending>>

\* a login that tells an unknown username from a wrong password
InvalidCredentials_leaky(username, password) ==
    IF \E u \in DOMAIN users : users[u].username = username
    THEN "Invalid password."
    ELSE "Invalid username."

\* flash("Invalid credentials."): the notice when User.authenticate found
\* nobody for that username and password
InvalidCredentials(username, password) == "Invalid credentials."

login(method, csrf, username, password) ==
    LET request == Req("login", validate_on_submit(method, csrf), <<>>)
    IN  LET user == Authenticate(users, username, password)
        IN  /\ IF validate_on_submit(method, csrf)
               THEN IF user # NoUser
                    THEN /\ do_login(user)
                         /\ resp' = Redirect(request, "Hello", <<"/">>)
                    ELSE /\ resp' = Render(request,
                                           InvalidCredentials(username,
                                                              password),
                                           "users/login.html")
                         /\ UNCHANGED session
               ELSE /\ resp' = Render(request, "", "users/login.html")
                    /\ UNCHANGED session
            /\ UNCHANGED <<db, now, pending>>

\* a logout that clears the session before it checks the token and the user
logout_eager(csrf) ==
    LET request == Req("logout", csrf, <<>>)
    IN  /\ do_logout
        /\ resp' = IF NotPermitted(csrf)
                   THEN Abort(request, 401)
                   ELSE Redirect(request, "User logged out!", <<"/">>)
        /\ UNCHANGED <<db, now, pending>>

logout(csrf) ==
    LET request == Req("logout", csrf, <<>>)
    IN  /\ IF NotPermitted(csrf)
           THEN /\ resp' = Abort(request, 401)
                /\ UNCHANGED session
           ELSE /\ do_logout
                /\ resp' = Redirect(request, "User logged out!", <<"/">>)
        /\ UNCHANGED <<db, now, pending>>

(***************************************************************************)
(* General user routes: pages that are read, never written.                *)
(***************************************************************************)
\* User.query.get_or_404(user_id), then the page
UserPage(request, user_id, template) ==
    IF user_id \notin DOMAIN users
    THEN Abort(request, 404)
    ELSE Render(request, "", template)

list_users ==
    LET request == Req("list_users", FALSE, <<>>)
    IN  /\ resp' = Gated(request, Render(request, "", "users/index.html"))
        /\ UNCHANGED <<db, session, now, pending>>

show_user(user_id) ==
    LET request == Req("show_user", FALSE, <<user_id>>)
    IN  /\ resp' = Gated(request,
                         UserPage(request, user_id, "users/show.html"))
        /\ UNCHANGED <<db, session, now, pending>>

show_following(user_id) ==
    LET request == Req("show_following", FALSE, <<user_id>>)
    IN  /\ resp' = Gated(request,
                         UserPage(request, user_id, "users/following.html"))
        /\ UNCHANGED <<db, session, now, pending>>

show_followers(user_id) ==
    LET request == Req("show_followers", FALSE, <<user_id>>)
    IN  /\ resp' = Gated(request,
                         UserPage(request, user_id, "users/followers.html"))
        /\ UNCHANGED <<db, session, now, pending>>

show_liked_messages(user_id) ==
    LET request == Req("show_liked_messages", FALSE, <<user_id>>)
    IN  /\ resp' = Gated(request,
                         UserPage(request, user_id, "/users/liked.html"))
        /\ UNCHANGED <<db, session, now, pending>>

(***************************************************************************)
(* Follows.                                                                *)
(***************************************************************************)
\* a follow handler without the check on the target
IsSelf_never(u, follow_id) == FALSE

\* g.user.id == follow_id
IsSelf(u, follow_id) == u = follow_id

\* a follow handler that never finds the edge it is about to add
IsFollowing_never(u, follow_id) == FALSE

\* followed_user in g.user.following
IsFollowing(u, follow_id) == <<u, follow_id>> \in DOMAIN follows

\* a follow that also makes the followed user follow back
AppendFollowing_mutual(u, follow_id) ==
    AddEdge(AddEdge(follows, <<u, follow_id>>), <<follow_id, u>>)

\* g.user.following.append(followed_user); db.session.commit()
AppendFollowing(u, follow_id) == AddEdge(follows, <<u, follow_id>>)

\* a removal that is never committed
RemoveFollowing_kept(u, follow_id) == follows

\* g.user.following.remove(followed_user); db.session.commit()
RemoveFollowing(u, follow_id) == RemoveEdge(follows, <<u, follow_id>>)

start_following(csrf, follow_id) ==
    LET request == Req("start_following", csrf, <<follow_id>>)
    IN  /\ IF NotPermitted(csrf)
           THEN /\ resp' = Abort(request, 401)
                /\ UNCHANGED follows
           ELSE IF follow_id \notin DOMAIN users
           THEN /\ resp' = Abort(request, 404)
                /\ UNCHANGED follows
           ELSE IF IsSelf(GUser, follow_id)
           THEN /\ resp' = Redirect(request, "You cannot follow yourself!",
                                    <<"users", GUser, "following">>)
                /\ UNCHANGED follows
           ELSE /\ follows' = IF ~IsFollowing(GUser, follow_id)
                              THEN AppendFollowing(GUser, follow_id)
                              ELSE follows
                /\ resp' = Redirect(request, "",
                                    <<"users", GUser, "following">>)
        /\ UNCHANGED <<users, next_user_id, messages, next_message_id, likes,
                       session, now, pending>>

stop_following(csrf, follow_id) ==
    LET request == Req("stop_following", csrf, <<follow_id>>)
    IN  /\ IF NotPermitted(csrf)
           THEN /\ resp' = Abort(request, 401)
                /\ UNCHANGED follows
           ELSE IF follow_id \notin DOMAIN users
           THEN /\ resp' = Abort(request, 404)
                /\ UNCHANGED follows
           ELSE /\ follows' = IF IsFollowing(GUser, follow_id)
                              THEN RemoveFollowing(GUser, follow_id)
                              ELSE follows
                /\ resp' = Redirect(request, "",
                                    <<"users", GUser, "following">>)
        /\ UNCHANGED <<users, next_user_id, messages, next_message_id, likes,
                       session, now, pending>>

(***************************************************************************)
(* Profile.                                                                *)
(***************************************************************************)
\* a profile update without the check on the username
username_check_never(user, form) == FALSE

\* user.username != form.username.data and
\* User.query.filter_by(username=form.username.data).one_or_none()
username_check(user, form) ==
    /\ users[user].username # form.username
    /\ \E u \in DOMAIN users : users[u].username = form.username

\* a profile update without the check on the email
email_check_never(user, form) == FALSE

\* user.email != form.email.data and
\* User.query.filter_by(email=form.email.data).one_or_none()
email_check(user, form) ==
    /\ users[user].email # form.email
    /\ \E u \in DOMAIN users : users[u].email = form.email

\* user.username = form.username.data ... user.header_image_url = ...: the
\* row of the user with the form's fields assigned
ProfileRow(user, form) ==
    [username |-> form.username,
     email |-> form.email,
     password |-> users[user].password,
     image_url |-> OrDefault(form.image_url, DEFAULT_IMAGE_URL),
     header_image_url |->
         OrDefault(form.header_image_url, DEFAULT_HEADER_IMAGE_URL),
     bio |-> form.bio,
     location |-> form.location]

\* a profile update that takes any password
Reauthenticate_skipped(form) == GUser

\* user = User.authenticate(g.user.username, form.password.data)
Reauthenticate(form) ==
    Authenticate(users, users[GUser].username, form.password)

update_profile(method, csrf, form) ==
    LET request ==
            Req("update_profile", validate_on_submit(method, csrf), <<>>)
    IN  LET user == Reauthenticate(form)
        IN  /\ IF GUser = NoUser
               THEN /\ resp' = Abort(request, 401)
                    /\ UNCHANGED users
               ELSE IF ~validate_on_submit(method, csrf)
               THEN /\ resp' = Render(request, "", "users/edit.html")
                    /\ UNCHANGED users
               ELSE IF user = NoUser
               THEN /\ resp' = [Render(request, "", "users/edit.html")
                                   EXCEPT !.errors = {"password"}]
                    /\ UNCHANGED users
               ELSE IF username_check(user, form) \/ email_check(user, form)
               THEN /\ resp' = [Render(request, "", "users/edit.html")
                                   EXCEPT !.errors =
                                       (IF username_check(user, form)
                                        THEN {"username"} ELSE {})
                                       \cup (IF email_check(user, form)
                                             THEN {"email"} ELSE {})]
                    /\ UNCHANGED users
               ELSE /\ users' = [users EXCEPT ![user] =
                                   ProfileRow(user, form)]
                    /\ resp' = Redirect(request, "Updated",
                                        <<"users", GUser>>)
            /\ UNCHANGED <<next_user_id, messages, next_message_id, follows,
                           likes, session, now, pending>>

\* update_profile up to its last check, when the form is valid, the password
\* is right and neither check finds the username or the email taken: the
\* request is in flight, nothing is assigned or committed yet
update_profile_begin(csrf, form) ==
    /\ GUser # NoUser
    /\ validate_on_submit("POST", csrf)
    /\ Reauthenticate(form) # NoUser
    /\ ~username_check(Reauthenticate(form), form)
    /\ ~email_check(Reauthenticate(form), form)
    /\ pending' = pending \cup {[user |-> Reauthenticate(form), form |-> form]}
    /\ UNCHANGED <<db, session, now, resp>>

\* the unique constraints on users.username and users.email, raised at the
\* commit of an update of that user's row
UpdateIntegrityError(us, user, row) ==
    \E u \in (DOMAIN us) \ {user} :
        us[u].username = row.username \/ us[u].email = row.email

\* update_profile from its assignments on, for a request in flight:
\* db.session.commit() is not inside a try, so an IntegrityError leaves the
\* handler uncaught and the request ends as a 500
update_profile_commit(p) ==
    LET request == Req("update_profile", TRUE, <<>>)
    IN  /\ p \in pending
        /\ p.user \in DOMAIN users
        /\ pending' = pending \ {p}
        /\ IF UpdateIntegrityError(users, p.user, ProfileRow(p.user, p.form))
           THEN /\ resp' = Abort(request, 500)
                /\ UNCHANGED users
           ELSE /\ users' = [users EXCEPT ![p.user] =
                               ProfileRow(p.user, p.form)]
                /\ resp' = Redirect(request, "Updated", <<"users", p.user>>)
        /\ UNCHANGED <<next_user_id, messages, next_message_id, follows,
                       likes, session, now>>

\* db.session.delete(message): the messages that are left
MessagesWithout(gone) == [m \in (DOMAIN messages) \ gone |-> messages[m]]

\* a store in which the likes of a deleted message stay behind
LikesWithoutMessages_kept(gone) == likes

\* the likes that are left once the likes of deleted messages went with them
LikesWithoutMessages(gone) == EdgesWithout(likes, 2, gone)

\* a delete-user handler without the loop over the user's messages
MessagesToDelete_none(u) == {}

\* for message in g.user.messages: db.session.delete(message)
MessagesToDelete(u) == UserMessages(u)

delete_user(csrf) ==
    LET request == Req("delete_user", csrf, <<>>)
        gone == MessagesToDelete(GUser)
    IN  IF NotPermitted(csrf)
        THEN /\ resp' = Abort(request, 401)
             /\ UNCHANGED <<db, session, now, pending>>
        ELSE /\ do_logout
             /\ messages' = MessagesWithout(gone)
             /\ likes' = EdgesWithout(LikesWithoutMessages(gone), 1, {GUser})
             /\ users' = [u \in (DOMAIN users) \ {GUser} |-> users[u]]
             /\ follows' = EdgesWithout(EdgesWithout(follows, 1, {GUser}),
                                        2, {GUser})
             /\ resp' = Redirect(request, "Deleted", <<"signup">>)
             /\ UNCHANGED <<next_user_id, next_message_id, now, pending>>

\* delete_user answering another session of the same user: the rows go as
\* in delete_user, and do_logout clears the other session, not this one
delete_user_elsewhere ==
    LET gone == MessagesToDelete(GUser)
    IN  /\ GUser # NoUser
        /\ messages' = MessagesWithout(gone)
        /\ likes' = EdgesWithout(LikesWithoutMessages(gone), 1, {GUser})
        /\ users' = [u \in (DOMAIN users) \ {GUser} |-> users[u]]
        /\ follows' = EdgesWithout(EdgesWithout(follows, 1, {GUser}),
                                   2, {GUser})
        /\ UNCHANGED <<next_user_id, next_message_id, session, now, resp,
                       pending>>

(***************************************************************************)
(* Messages.                                                               *)
(***************************************************************************)
\* Message(text=...); g.user.messages.append(msg): the row, stamped by the
\* timestamp column's default
NewMessage(text, u) == [text |-> text, timestamp |-> now, user_id |-> u]

add_message(method, csrf, text) ==
    LET request == Req("add_message", validate_on_submit(method, csrf), <<>>)
    IN  /\ IF GUser = NoUser
           THEN /\ resp' = Abort(request, 401)
                /\ UNCHANGED <<messages, next_message_id>>
           ELSE IF validate_on_submit(method, csrf)
           THEN /\ messages' = [m \in DOMAIN messages \cup {next_message_id} |->
                                  IF m = next_message_id
                                  THEN NewMessage(text, GUser)
                                  ELSE messages[m]]
                /\ next_message_id' = next_message_id + 1
                /\ resp' = Redirect(request, "", <<"users", GUser>>)
           ELSE /\ resp' = Render(request, "", "messages/create.html")
                /\ UNCHANGED <<messages, next_message_id>>
        /\ UNCHANGED <<users, next_user_id, follows, likes, session, now, pending>>

show_message(message_id) ==
    LET request == Req("show_message", FALSE, <<message_id>>)
    IN  /\ resp' = Gated(request,
                         IF message_id \notin DOMAIN messages
                         THEN Abort(request, 404)
                         ELSE Render(request, "", "messages/show.html"))
        /\ UNCHANGED <<db, session, now, pending>>

\* a delete-message handler without the check on the owner
NotOwner_never(u, message_id) == FALSE

\* msg.user_id != g.user.id
NotOwner(u, message_id) == messages[message_id].user_id # u

delete_message(csrf, message_id) ==
    LET request == Req("delete_message", csrf, <<message_id>>)
    IN  /\ IF NotPermitted(csrf)
           THEN /\ resp' = Abort(request, 401)
                /\ UNCHANGED <<messages, likes>>
           ELSE IF message_id \notin DOMAIN messages
           THEN /\ resp' = Abort(request, 404)
                /\ UNCHANGED <<messages, likes>>
           ELSE IF NotOwner(GUser, message_id)
           THEN /\ resp' = Abort(request, 401)
                /\ UNCHANGED <<messages, likes>>
           ELSE /\ messages' = MessagesWithout({message_id})
                /\ likes' = LikesWithoutMessages({message_id})
                /\ resp' = Redirect(request, "", <<"users", GUser>>)
        /\ UNCHANGED <<users, next_user_id, next_message_id, follows, session,
                       now, pending>>

(***************************************************************************)
(* Likes.                                                                  *)
(***************************************************************************)
\* a like handler without the check on the owner
IsOwnMessage_never(u, message_id) == FALSE

\* g.user.id == message_to_like.user_id
IsOwnMessage(u, message_id) == u = messages[message_id].user_id

\* message in g.user.messages_liked
IsLiked(u, message_id) == <<u, message_id>> \in DOMAIN likes

\* g.user.messages_liked.append(message_to_like); db.session.commit()
AppendLiked(u, message_id) == AddEdge(likes, <<u, message_id>>)

\* g.user.messages_liked.remove(message_to_unlike); db.session.commit()
RemoveLiked(u, message_id) == RemoveEdge(likes, <<u, message_id>>)

like_message(csrf, message_id) ==
    LET request == Req("like_message", csrf, <<message_id>>)
    IN  /\ IF NotPermitted(csrf)
           THEN /\ resp' = Abort(request, 401)
                /\ UNCHANGED likes
           ELSE IF message_id \notin DOMAIN messages
           THEN /\ resp' = Abort(request, 404)
                /\ UNCHANGED likes
           ELSE IF IsOwnMessage(GUser, message_id)
           THEN /\ resp' = Redirect(request,
                                    "You cannot like your own Warble!",
                                    <<"messages", message_id>>)
                /\ UNCHANGED likes
           ELSE /\ likes' = IF ~IsLiked(GUser, message_id)
                            THEN AppendLiked(GUser, message_id)
                            ELSE likes
                /\ resp' = Redirect(request, "", <<"messages", message_id>>)
        /\ UNCHANGED <<users, next_user_id, messages, next_message_id, follows,
                       session, now, pending>>

unlike_message(csrf, message_id) ==
    LET request == Req("unlike_message", csrf, <<message_id>>)
    IN  /\ IF NotPermitted(csrf)
           THEN /\ resp' = Abort(request, 401)
                /\ UNCHANGED likes
           ELSE IF message_id \notin DOMAIN messages
           THEN /\ resp' = Abort(request, 404)
                /\ UNCHANGED likes
           ELSE /\ likes' = IF IsLiked(GUser, message_id)
                            THEN RemoveLiked(GUser, message_id)
                            ELSE likes
                /\ resp' = Redirect(request, "", <<"messages", message_id>>)
        /\ UNCHANGED <<users, next_user_id, messages, next_message_id, follows,
                       session, now, pending>>

(***************************************************************************)
(* Homepage.                                                               *)
(***************************************************************************)
\* a feed query that forgets the filter on who is followed
user_ids_to_show_everyone(u) == DOMAIN users

\* [user.id for user in g.user.following] + [g.user.id]
user_ids_to_show(u) == Following(u) \cup {u}

\* .filter(Message.user_id.in_(user_ids_to_show))
FilterByUser(ids) == {m \in DOMAIN messages : messages[m].user_id \in ids}

RECURSIVE Perms(_)
\* the orders in which rows of equal timestamp may come back
Perms(S) ==
    IF S = {} THEN {<<>>}
    ELSE UNION {{<<m>> \o p : p \in Perms(S \ {m})} : m \in S}

\* the rows of S, one after the other
RowSeq(S) ==
    LET InS(m) == m \in S
    IN  SelectSeq([i \in 1..(next_message_id - 1) |-> i], InS)

\* Message.timestamp.desc()
Later(a, b) == messages[a].timestamp > messages[b].timestamp

RECURSIVE RunEnd(_, _)
\* the last position of the run of equal timestamps that starts at position i
RunEnd(rows, i) ==
    IF i < Len(rows)
       /\ messages[rows[i + 1]].timestamp = messages[rows[i]].timestamp
    THEN RunEnd(rows, i + 1)
    ELSE i

RECURSIVE TieOrders(_)
\* sorted rows with every run of equal timestamps in each of its orders
TieOrders(rows) ==
    IF rows = <<>> THEN {<<>>}
    ELSE LET k == RunEnd(rows, 1)
         IN  {a \o b : a \in Perms({rows[i] : i \in 1..k}),
                       b \in TieOrders(SubSeq(rows, k + 1, Len(rows)))}

\* .order_by(Message.timestamp.desc()): every order the database may return
OrderByTimestampDesc(S) == TieOrders(SortSeq(RowSeq(S), Later))

\* a limit that is one row short
Limit_short(rows) ==
    IF Len(rows) < FeedLimit THEN rows ELSE SubSeq(rows, 1, FeedLimit - 1)

\* .limit(100)
Limit(rows) ==
    IF Len(rows) <= FeedLimit THEN rows ELSE SubSeq(rows, 1, FeedLimit)

homepage ==
    LET request == Req("homepage", FALSE, <<>>)
    IN  /\ IF GUser # NoUser
           THEN \E rows \in OrderByTimestampDesc(
                               FilterByUser(user_ids_to_show(GUser))) :
                   resp' = [Render(request, "", "home.html")
                               EXCEPT !.feed = Limit(rows)]
           ELSE resp' = Render(request, "", "home-anon.html")
        /\ UNCHANGED <<db, session, now, pending>>

(***************************************************************************)
(* The clock that stamps new messages.                                     *)
(***************************************************************************)
Tick ==
    /\ now' = now + 1
    /\ UNCHANGED <<db, session, resp, pending>>

(***************************************************************************)
(* The requests a browser sends.                                           *)
(***************************************************************************)
UserIds == 1..MaxUserId

MessageIds == 1..MaxMessageId

\* a profile form: username, email and the password typed to confirm; the
\* remaining fields are left blank
ProfileForm(username, email, password) ==
    [username |-> username, email |-> email, password |-> password,
     image_url |-> "", header_image_url |-> "", bio |-> "", location |-> ""]

\* the forms in which every user keeps the address that goes with the name
PairedForms ==
    {ProfileForm(username, EmailOf(username), password) :
        username \in Usernames, password \in Passwords}

\* whether the signup would insert a row
SignupInserts(username, email) ==
    ~IntegrityError(users, UserSignup(username, email, "", ""))

\* the GET of every route that serves a form
GetForm ==
    \/ signup("GET", FALSE, "", "", "", "")
    \/ login("GET", FALSE, "", "")
    \/ update_profile("GET", FALSE, ProfileForm("", "", ""))
    \/ add_message("GET", FALSE, "")

\* the GET of the pages about users
Reads ==
    \/ list_users
    \/ \E user_id \in UserIds : show_user(user_id)
    \/ \E user_id \in UserIds : show_following(user_id)
    \/ \E user_id \in UserIds : show_followers(user_id)
    \/ \E user_id \in UserIds : show_liked_messages(user_id)

\* the requests on the social graph and on messages
Social ==
    \/ \E csrf \in BOOLEAN, follow_id \in UserIds :
          start_following(csrf, follow_id)
    \/ \E csrf \in BOOLEAN, follow_id \in UserIds :
          stop_following(csrf, follow_id)
    \/ \E message_id \in MessageIds : show_message(message_id)
    \/ \E csrf \in BOOLEAN, message_id \in MessageIds :
          delete_message(csrf, message_id)
    \/ \E csrf \in BOOLEAN, message_id \in MessageIds :
          like_message(csrf, message_id)
    \/ \E csrf \in BOOLEAN, message_id \in MessageIds :
          unlike_message(csrf, message_id)

\* POST /messages/new while the serial has ids left
Post ==
    \E csrf \in BOOLEAN, text \in Texts :
        /\ (GUser # NoUser /\ csrf) => next_message_id <= MaxMessageId
        /\ add_message("POST", csrf, text)

(***************************************************************************)
(* The application from an empty database.                                 *)
(***************************************************************************)
Init ==
    /\ users = <<>>
    /\ next_user_id = 1
    /\ messages = <<>>
    /\ next_message_id = 1
    /\ follows = EmptyBag
    /\ likes = EmptyBag
    /\ session = NoUser
    /\ now = 0
    /\ resp = Render(Req("homepage", FALSE, <<>>), "", "home-anon.html")
    /\ pending = {}

Next ==
    \/ \E csrf \in BOOLEAN, username \in Usernames :
          /\ (csrf /\ SignupInserts(username, EmailOf(username)))
                => next_user_id <= MaxUserId
          /\ signup("POST", csrf, username, EmailOf(username), "password", "")
    \/ \E csrf \in BOOLEAN, username \in Usernames, password \in Passwords :
          login("POST", csrf, username, password)
    \/ \E csrf \in BOOLEAN : logout(csrf)
    \/ \E csrf \in BOOLEAN, form \in PairedForms :
          update_profile("POST", csrf, form)
    \/ \E csrf \in BOOLEAN : delete_user(csrf)
    \/ GetForm
    \/ Reads
    \/ Social
    \/ Post
    \/ homepage
    \/ now < MaxTime /\ Tick

Spec == Init /\ [][Next]_vars

(***************************************************************************)
(* Accounts alone: every combination of username, email and password.      *)
(***************************************************************************)
\* a profile form with a picture, a bio and a location typed in and the
\* header picture left blank
FilledForm(username, email, password) ==
    [ProfileForm(username, email, password)
        EXCEPT !.image_url = "/static/images/new-pic.png",
               !.bio = "bio", !.location = "here"]

AllForms ==
    {ProfileForm(username, email, password) :
        username \in Usernames, email \in Emails, password \in Passwords}
    \cup {FilledForm(username, email, password) :
        username \in Usernames, email \in Emails, password \in Passwords}

AccountNext ==
    \/ \E csrf \in BOOLEAN, username \in Usernames, email \in Emails,
          password \in Passwords :
          /\ (csrf /\ SignupInserts(username, email))
                => next_user_id <= MaxUserId
          /\ signup("POST", csrf, username, email, password, "")
    \/ \E csrf \in BOOLEAN, username \in Usernames, password \in Passwords :
          login("POST", csrf, username, password)
    \/ \E csrf \in BOOLEAN : logout(csrf)
    \/ \E csrf \in BOOLEAN, form \in AllForms :
          update_profile("POST", csrf, form)
    \/ \E csrf \in BOOLEAN : delete_user(csrf)
    \/ GetForm

AccountSpec == Init /\ [][AccountNext]_vars

(***************************************************************************)
(* The application when a user is logged in on two browsers: the account   *)
(* may be deleted from the other one.                                      *)
(***************************************************************************)
StaleNext ==
    \/ \E csrf \in BOOLEAN, username \in Usernames :
          /\ (csrf /\ SignupInserts(username, EmailOf(username)))
                => next_user_id <= MaxUserId
          /\ signup("POST", csrf, username, EmailOf(username), "password", "")
    \/ \E csrf \in BOOLEAN, username \in Usernames :
          login("POST", csrf, username, "password")
    \/ \E csrf \in BOOLEAN : logout(csrf)
    \/ \E csrf \in BOOLEAN, form \in PairedForms :
          update_profile("POST", csrf, form)
    \/ \E csrf \in BOOLEAN : delete_user(csrf)
    \/ delete_user_elsewhere
    \/ GetForm
    \/ Reads
    \/ Social
    \/ Post
    \/ homepage

StaleSpec == Init /\ [][StaleNext]_vars

(***************************************************************************)
(* Accounts with requests that overlap: a profile update may be overtaken  *)
(* between its checks and its commit by a signup or by another update.     *)
(***************************************************************************)
RaceForms ==
    {ProfileForm(username, email, "password") :
        username \in Usernames, email \in Emails}

RaceNext ==
    \/ \E username \in Usernames, email \in Emails :
          /\ SignupInserts(username, email) => next_user_id <= MaxUserId
          /\ signup("POST", TRUE, username, email, "password", "")
    \/ \E username \in Usernames : login("POST", TRUE, username, "password")
    \/ \E form \in RaceForms : update_profile("POST", TRUE, form)
    \/ \E form \in RaceForms :
          /\ Cardinality(pending) < MaxPending
          /\ update_profile_begin(TRUE, form)
    \/ \E p \in pending : update_profile_commit(p)

RaceSpec == Init /\ [][RaceNext]_vars

(***************************************************************************)
(* The feed over a store that holds about as many messages as the feed's   *)
(* limit: two users have signed up and posted in turn.                     *)
(***************************************************************************)
BulkUsers ==
    [u \in {1, 2} |->
        LET username == IF u = 1 THEN "u1" ELSE "u2"
        IN  UserSignup(username, EmailOf(username), "password",
                       DEFAULT_IMAGE_URL)]

\* how the clock moved while the messages were posted
BulkPatterns == {"distinct", "oldtie", "newtie"}

BulkTimestamp(pattern, m, n) ==
    CASE pattern = "distinct" -> m
      [] pattern = "oldtie" -> IF m <= 2 THEN 2 ELSE m
      [] pattern = "newtie" -> IF m >= n - 1 THEN n ELSE m

BulkMessages(pattern, n) ==
    [m \in 1..n |->
        [text |-> "hello", timestamp |-> BulkTimestamp(pattern, m, n),
         user_id |-> IF m % 2 = 1 THEN 1 ELSE 2]]

\* one store just under the feed's limit, one over it
BulkSizes == {FeedLimit - 1, FeedLimit + BulkSlack}

\* the last id handed out, and the last clock value, of the bulk-loaded runs
BulkLast == FeedLimit + 1

FeedInit ==
    \E pattern \in BulkPatterns, n \in BulkSizes :
        /\ users = BulkUsers
        /\ next_user_id = 3
        /\ messages = BulkMessages(pattern, n)
        /\ next_message_id = n + 1
        /\ follows = EmptyBag
        /\ likes = EmptyBag
        /\ session = NoUser
        /\ now = n + 1
        /\ resp = Render(Req("homepage", FALSE, <<>>), "", "home-anon.html")
        /\ pending = {}

FeedNext ==
    \/ \E username \in Usernames : login("POST", TRUE, username, "password")
    \/ logout(TRUE)
    \/ \E follow_id \in DOMAIN BulkUsers : start_following(TRUE, follow_id)
    \/ \E follow_id \in DOMAIN BulkUsers : stop_following(TRUE, follow_id)
    \/ \E text \in Texts :
          /\ next_message_id <= BulkLast
          /\ add_message("POST", TRUE, text)
    \/ homepage
    \/ now <= BulkLast /\ Tick

FeedSpec == FeedInit /\ [][FeedNext]_vars

(***************************************************************************)
(* The homepage feed.                                                      *)
(***************************************************************************)
\* the last response is the feed page, served to the viewer GUser
HomeFeed ==
    /\ resp.request.route = "homepage"
    /\ resp.template = "home.html"

\* the messages of the feed page
FeedSet == {resp.feed[i] : i \in 1..Len(resp.feed)}

\* the messages owned by the viewer or by a user the viewer follows
Qualifying ==
    {m \in DOMAIN messages :
        \/ messages[m].user_id = GUser
        \/ <<GUser, messages[m].user_id>> \in DOMAIN follows}

\* C1: every message of a logged-in viewer's homepage feed is owned by the
\* viewer or by a user the viewer follows, the feed is in descending order
\* of creation timestamp, and it holds at most 100 messages.
C1_FeedOwnedOrderedCapped ==
    HomeFeed =>
        /\ GUser # NoUser
        /\ \A i \in 1..Len(resp.feed) :
              /\ resp.feed[i] \in DOMAIN messages
              /\ \/ messages[resp.feed[i]].user_id = GUser
                 \/ <<GUser, messages[resp.feed[i]].user_id>> \in DOMAIN follows
        /\ \A i \in 1..(Len(resp.feed) - 1) :
              messages[resp.feed[i]].timestamp
                  >= messages[resp.feed[i + 1]].timestamp
        /\ Len(resp.feed) <= 100

\* a full feed that mixes the viewer's messages with a followed user's, while
\* the store holds more qualifying messages than the feed may show
C1_Witness ==
    /\ HomeFeed
    /\ Len(resp.feed) = 100
    /\ Cardinality(Qualifying) > 100
    /\ \E i, j \in 1..Len(resp.feed) :
          /\ messages[resp.feed[i]].user_id = GUser
          /\ messages[resp.feed[j]].user_id # GUser
          /\ messages[resp.feed[i]].timestamp > messages[resp.feed[j]].timestamp

\* C2: the feed is exactly the 100 most recent messages of the viewer and of
\* the users the viewer follows: no message twice, all of them when at most
\* 100 qualify (only the viewer's own when the viewer follows no one), and
\* otherwise 100 of them with no omitted one newer than an included one.
C2_FeedIsMostRecent ==
    HomeFeed =>
        /\ FeedSet \subseteq Qualifying
        /\ Cardinality(FeedSet) = Len(resp.feed)
        /\ Cardinality(Qualifying) <= 100 => FeedSet = Qualifying
        /\ Cardinality(Qualifying) > 100 => Len(resp.feed) = 100
        /\ \A o \in Qualifying \ FeedSet : \A m \in FeedSet :
              messages[o].timestamp <= messages[m].timestamp
        /\ Following(GUser) = {} => FeedSet = UserMessages(GUser)

\* the viewer follows the user who posted last, more than 100 messages
\* qualify, and the feed shows that last message and leaves an older one out
C2_Witness ==
    /\ HomeFeed
    /\ Cardinality(Qualifying) > 100
    /\ Len(resp.feed) = 100
    /\ next_message_id - 1 \in FeedSet
    /\ messages[next_message_id - 1].user_id \in Following(GUser)
    /\ messages[next_message_id - 1].timestamp > 100
    /\ Qualifying \ FeedSet # {}

(***************************************************************************)
(* Likes and follows.                                                      *)
(***************************************************************************)
\* the last response answers a request of that route
Answered(route) == resp.request.route = route

\* how many rows of an association table hold that pair
Copies(edges, e) == IF e \in DOMAIN edges THEN edges[e] ELSE 0

\* user.followers
Followers(u) == {e[1] : e \in {x \in DOMAIN follows : x[2] = u}}

NoSelfLike ==
    \A e \in DOMAIN likes :
        e[2] \in DOMAIN messages => messages[e[2]].user_id # e[1]

OwnLikeRejected ==
    \A csrf \in BOOLEAN, message_id \in DOMAIN messages :
        (/\ GUser # NoUser
         /\ messages[message_id].user_id = GUser
         /\ like_message(csrf, message_id))
        => /\ likes' = likes
           /\ Copies(likes', <<GUser, message_id>>) = 0
           /\ resp'.status # 200
           /\ csrf => resp'.flash = "You cannot like your own Warble!"

\* C3: no like edge joins a user to a message that user owns, and a like
\* request by the owner of the message is turned down (with a valid token:
\* "You cannot like your own Warble!"), adds no edge and leaves every like
\* count as it was.
C3_NoSelfLike == []NoSelfLike /\ [][OwnLikeRejected]_vars

\* the owner of a message that another user likes has tried to like it
C3_Witness ==
    /\ Answered("like_message")
    /\ resp.flash = "You cannot like your own Warble!"
    /\ GUser # NoUser
    /\ messages[resp.request.args[1]].user_id = GUser
    /\ \E e \in DOMAIN likes : e[2] = resp.request.args[1]

NoSelfFollow ==
    /\ \A e \in DOMAIN follows : e[1] # e[2]
    /\ \A u \in DOMAIN users : u \notin Following(u) /\ u \notin Followers(u)

SelfFollowAddsNothing ==
    \A csrf \in BOOLEAN :
        (GUser # NoUser /\ start_following(csrf, GUser))
        => /\ follows' = follows
           /\ Copies(follows', <<GUser, GUser>>) = 0

\* C4: no follow edge joins a user to themselves, a follow request aimed at
\* the acting user adds no edge, and no user is in their own following or
\* followers.
C4_NoSelfFollow == []NoSelfFollow /\ [][SelfFollowAddsNothing]_vars

\* a user who follows somebody else has tried to follow themselves
C4_Witness ==
    /\ Answered("start_following")
    /\ resp.flash = "You cannot follow yourself!"
    /\ resp.request.args[1] = GUser
    /\ Following(GUser) # {}
    /\ GUser \notin Following(GUser)

AtMostOneEdge ==
    /\ \A e \in DOMAIN follows : follows[e] = 1
    /\ \A e \in DOMAIN likes : likes[e] = 1

RepeatedAddKeepsOne ==
    /\ \A follow_id \in DOMAIN users :
          (/\ GUser # NoUser
           /\ <<GUser, follow_id>> \in DOMAIN follows
           /\ start_following(TRUE, follow_id))
          => /\ resp'.status = 302
             /\ follows' = follows
             /\ Copies(follows', <<GUser, follow_id>>) = 1
    /\ \A message_id \in DOMAIN messages :
          (/\ GUser # NoUser
           /\ <<GUser, message_id>> \in DOMAIN likes
           /\ like_message(TRUE, message_id))
          => /\ resp'.status = 302
             /\ likes' = likes
             /\ Copies(likes', <<GUser, message_id>>) = 1

\* C5: each pair has at most one follow edge and at most one like edge, and
\* a follow or like request for a pair that already has its edge is answered
\* with a redirect and leaves exactly one edge for the pair.
C5_AddIdempotent == []AtMostOneEdge /\ [][RepeatedAddKeepsOne]_vars

\* a follow request was answered with a redirect and the pair has its one
\* edge, while the same user also likes a message
C5_Witness ==
    /\ Answered("start_following")
    /\ resp.status = 302
    /\ GUser # NoUser
    /\ Copies(follows, <<GUser, resp.request.args[1]>>) = 1
    /\ MessagesLiked(GUser) # {}

RemoveLeavesNoEdge ==
    /\ \A follow_id \in DOMAIN users :
          (GUser # NoUser /\ stop_following(TRUE, follow_id))
          => /\ resp'.status = 302
             /\ <<GUser, follow_id>> \notin DOMAIN follows'
             /\ likes' = likes
             /\ <<GUser, follow_id>> \notin DOMAIN follows
                   => follows' = follows
             /\ \A e \in (DOMAIN follows) \ {<<GUser, follow_id>>} :
                   Copies(follows', e) = follows[e]
    /\ \A message_id \in DOMAIN messages :
          (GUser # NoUser /\ unlike_message(TRUE, message_id))
          => /\ resp'.status = 302
             /\ <<GUser, message_id>> \notin DOMAIN likes'
             /\ follows' = follows
             /\ <<GUser, message_id>> \notin DOMAIN likes
                   => likes' = likes
             /\ \A e \in (DOMAIN likes) \ {<<GUser, message_id>>} :
                   Copies(likes', e) = likes[e]

\* C6: a stop-following or unlike request by a logged-in user for an
\* existing target is answered with a redirect and leaves the pair without
\* an edge; when the pair had none, both edge stores stay as they were, and
\* the edges of other pairs are never touched.
C6_RemoveIdempotent == [][RemoveLeavesNoEdge]_vars

\* a stop-following request was answered with a redirect, the pair has no
\* edge, and another user's edge is still there
C6_Witness ==
    /\ Answered("stop_following")
    /\ resp.status = 302
    /\ GUser # NoUser
    /\ <<GUser, resp.request.args[1]>> \notin DOMAIN follows
    /\ \E e \in DOMAIN follows : e[1] # GUser

(***************************************************************************)
(* Deleting messages and users.                                            *)
(***************************************************************************)
OnlyOwnerRemoves ==
    \A message_id \in (DOMAIN messages) \ (DOMAIN messages') :
        GUser # NoUser /\ messages[message_id].user_id = GUser

StrangerIsUnauthorized ==
    \A csrf \in BOOLEAN, message_id \in DOMAIN messages :
        (/\ GUser # NoUser
         /\ messages[message_id].user_id # GUser
         /\ delete_message(csrf, message_id))
        => /\ resp'.status = 401
           /\ messages' = messages

OwnerRemovesExactlyThat ==
    \A message_id \in DOMAIN messages :
        (/\ GUser # NoUser
         /\ messages[message_id].user_id = GUser
         /\ delete_message(TRUE, message_id))
        => /\ resp'.status = 302
           /\ DOMAIN messages' = (DOMAIN messages) \ {message_id}
           /\ \A m \in DOMAIN messages' : messages'[m] = messages[m]

\* C7: a message leaves the store only in a step taken by its owner; a
\* delete-message request by a logged-in user who does not own the message
\* is answered 401 and the message stays; the owner's request removes that
\* message and no other.
C7_DeleteOnlyByOwner ==
    [][OnlyOwnerRemoves /\ StrangerIsUnauthorized /\ OwnerRemovesExactlyThat]_vars

\* a logged-in user asked, with a valid token, to delete a message that
\* belongs to somebody else; the answer is 401 and the message is there
C7_Witness ==
    /\ Answered("delete_message")
    /\ resp.request.valid
    /\ resp.status = 401
    /\ GUser # NoUser
    /\ resp.request.args[1] \in DOMAIN messages
    /\ messages[resp.request.args[1]].user_id # GUser

OwnersExist == \A m \in DOMAIN messages : messages[m].user_id \in DOMAIN users

\* the message ids that were handed out and are no longer in the store
Gone == (1..(next_message_id - 1)) \ (DOMAIN messages)

DeleteUserRemovesMessages ==
    (GUser # NoUser /\ delete_user(TRUE))
    => /\ GUser \notin DOMAIN users'
       /\ \A m \in DOMAIN messages' : messages'[m].user_id # GUser
       /\ UserMessages(GUser) \subseteq
              (1..(next_message_id' - 1)) \ (DOMAIN messages')

GoneStaysGone == \A m \in Gone : m \notin DOMAIN messages'

ShowGoneToUser ==
    \A message_id \in Gone :
        show_message(message_id)
        => IF GUser # NoUser
           THEN resp'.status = 404
           ELSE resp'.status = 302 /\ resp'.flash = "Access unauthorized."

ShowGoneToAnyone ==
    \A message_id \in Gone : show_message(message_id) => resp'.status = 404

\* C8 as stated: once a user is deleted none of their messages is stored,
\* every later request to show one of them is answered 404, and the owner of
\* every stored message exists.
C8_Original ==
    /\ []OwnersExist
    /\ [][DeleteUserRemovesMessages /\ GoneStaysGone /\ ShowGoneToAnyone]_vars

\* C8: once a user is deleted none of their messages is stored or comes back,
\* a later request by a logged-in user to show one of them is answered 404
\* (a request without a login is redirected with "Access unauthorized."), and
\* the owner of every stored message exists.
C8_DeleteUserRemovesMessages ==
    /\ []OwnersExist
    /\ [][DeleteUserRemovesMessages /\ GoneStaysGone /\ ShowGoneToUser]_vars

\* a user was deleted, and a user who is logged in and has a message of
\* their own asked for a message that is gone: 404
C8_Witness ==
    /\ Answered("show_message")
    /\ resp.status = 404
    /\ GUser # NoUser
    /\ resp.request.args[1] \in Gone
    /\ Cardinality(DOMAIN users) < next_user_id - 1
    /\ UserMessages(GUser) # {}

(***************************************************************************)
(* Signup.                                                                 *)
(***************************************************************************)
\* no user holds the username and no user holds the email
Unheld(username, email) ==
    \A u \in DOMAIN users :
        users[u].username # username /\ users[u].email # email

SignupCreatesOneAndLogsIn ==
    \A username \in Usernames, email \in Emails, password \in Passwords :
        (/\ Unheld(username, email)
         /\ signup("POST", TRUE, username, email, password, ""))
        => /\ resp'.status = 302
           /\ resp'.location = <<"/">>
           /\ Cardinality(DOMAIN users') = Cardinality(DOMAIN users) + 1
           /\ \A u \in DOMAIN users : u \in DOMAIN users' /\ users'[u] = users[u]
           /\ \E u \in (DOMAIN users') \ (DOMAIN users) :
                 /\ users'[u].username = username
                 /\ users'[u].email = email
                 /\ users'[u].password # password
                 /\ session' = u
                 /\ Authenticate(users', username, password) = u

LoginAuthenticates ==
    \A username \in Usernames, password \in Passwords, u \in DOMAIN users :
        (/\ users[u].username = username
         /\ CheckHash(users[u].password, password)
         /\ login("POST", TRUE, username, password))
        => /\ session' = u
           /\ resp'.status = 302
           /\ resp'.location = <<"/">>

\* C9: a valid signup form whose username and email no user holds is
\* answered with a redirect, adds exactly one user with that username and
\* email and puts that user in the session; a login with that username and
\* password then puts the same user in the session.
C9_SignupSucceeds == [][SignupCreatesOneAndLogsIn /\ LoginAuthenticates]_vars

\* the second user has just signed up and is the one in the session
C9_Witness ==
    /\ Answered("signup")
    /\ resp.status = 302
    /\ Cardinality(DOMAIN users) = 2
    /\ session = next_user_id - 1
    /\ session \in DOMAIN users

DuplicateSignupFails ==
    \A username \in Usernames, email \in Emails, password \in Passwords :
        (/\ ~Unheld(username, email)
         /\ signup("POST", TRUE, username, email, password, ""))
        => /\ resp'.status = 200
           /\ resp'.template = "users/signup.html"
           /\ resp'.flash = "Username or email already taken"
           /\ users' = users
           /\ next_user_id' = next_user_id
           /\ session' = NoUser

\* C10: a valid signup form whose username or email some user holds is
\* answered with the signup form and "Username or email already taken", adds
\* no user and leaves nobody in the session.
C10_DuplicateSignupFails == [][DuplicateSignupFails]_vars

\* the only user there is signed up first; a second signup that repeats
\* the username or the email was turned down
C10_Witness ==
    /\ Answered("signup")
    /\ resp.flash = "Username or email already taken"
    /\ Cardinality(DOMAIN users) = 1
    /\ session = NoUser
    /\ next_user_id = 2

(***************************************************************************)
(* Accounts.                                                               *)
(***************************************************************************)
\* C11: no two distinct users hold the same username, and no two distinct
\* users hold the same email, after any signup, profile update and delete.
C11_UniqueCredentials ==
    \A u \in DOMAIN users, v \in DOMAIN users :
        u # v => /\ users[u].username # users[v].username
                 /\ users[u].email # users[v].email

\* two users exist, and the one logged in has just updated a profile that
\* pairs the second username with the first email
C11_Witness ==
    /\ Answered("update_profile")
    /\ resp.status = 302
    /\ Cardinality(DOMAIN users) = 2
    /\ GUser # NoUser
    /\ users[GUser].username = "u2"
    /\ users[GUser].email = "u1@email.com"

(***************************************************************************)
(* Requests without a login.                                               *)
(***************************************************************************)
\* the step answers a request on that route, and it is that handler's step
On(route, handler) == resp'.request.route = route /\ handler

\* the answer is 401 and the store is as it was
Denied ==
    /\ resp'.status = 401
    /\ users' = users
    /\ messages' = messages
    /\ next_message_id' = next_message_id
    /\ follows' = follows
    /\ likes' = likes

AnonymousIsDenied ==
    GUser = NoUser =>
        \A csrf \in BOOLEAN :
            /\ \A text \in Texts : On("add_message", add_message("POST", csrf, text)) => Denied
            /\ \A message_id \in MessageIds :
                  /\ On("delete_message", delete_message(csrf, message_id)) => Denied
                  /\ On("like_message", like_message(csrf, message_id)) => Denied
                  /\ On("unlike_message", unlike_message(csrf, message_id)) => Denied
            /\ \A follow_id \in UserIds :
                  /\ On("start_following", start_following(csrf, follow_id)) => Denied
                  /\ On("stop_following", stop_following(csrf, follow_id)) => Denied
            /\ \A form \in PairedForms :
                  On("update_profile", update_profile("POST", csrf, form)) => Denied
            /\ On("delete_user", delete_user(csrf)) => Denied
            /\ On("logout", logout(csrf)) => Denied

\* C12: without a logged-in user, a request to post, delete, like or unlike
\* a message, to follow or stop following, to edit the profile, to delete
\* the user or to log out is answered 401 and leaves users, messages,
\* follows and likes as they were; a POST of /messages/new adds no message.
C12_AnonymousIsDenied == [][AnonymousIsDenied]_vars

\* nobody is logged in, a message form with a valid token was posted and
\* answered 401, and the store holds users and messages
C12_Witness ==
    /\ Answered("add_message")
    /\ resp.request.valid
    /\ resp.status = 401
    /\ GUser = NoUser
    /\ DOMAIN users # {}
    /\ DOMAIN messages # {}

(***************************************************************************)
(* Gated pages.                                                            *)
(***************************************************************************)
\* what a gated page answers: without a login a redirect to the homepage
\* with the notice and nothing of the page; with one, the page when its
\* subject exists and 404 when it does not
GatedAnswer(exists, template) ==
    IF GUser = NoUser
    THEN /\ resp'.status = 302
         /\ resp'.location = <<"/">>
         /\ resp'.flash = "Access unauthorized."
         /\ resp'.template = ""
    ELSE IF exists
    THEN /\ resp'.status = 200
         /\ resp'.template = template
         /\ resp'.flash = ""
    ELSE resp'.status = 404

GatedReads ==
    /\ On("list_users", list_users) => GatedAnswer(TRUE, "users/index.html")
    /\ \A user_id \in UserIds :
          /\ On("show_user", show_user(user_id))
                => GatedAnswer(user_id \in DOMAIN users, "users/show.html")
          /\ On("show_following", show_following(user_id))
                => GatedAnswer(user_id \in DOMAIN users,
                               "users/following.html")
          /\ On("show_followers", show_followers(user_id))
                => GatedAnswer(user_id \in DOMAIN users,
                               "users/followers.html")
          /\ On("show_liked_messages", show_liked_messages(user_id))
                => GatedAnswer(user_id \in DOMAIN users, "/users/liked.html")
    /\ \A message_id \in MessageIds :
          On("show_message", show_message(message_id))
             => GatedAnswer(message_id \in DOMAIN messages,
                            "messages/show.html")

\* C13: the users list, a user's profile, following, followers and liked
\* messages, and a message's page answer a request without a login with a
\* redirect to the homepage and "Access unauthorized.", never with the page
\* and never with 401; with any user logged in they answer with the page of
\* an existing user or message (404 for one that does not exist).
C13_GatedReads == [][GatedReads]_vars

\* nobody is logged in and the profile of an existing user was asked for:
\* a redirect to the homepage with the notice
C13_Witness ==
    /\ Answered("show_user")
    /\ GUser = NoUser
    /\ resp.request.args[1] \in DOMAIN users
    /\ resp.status = 302
    /\ resp.flash = "Access unauthorized."
    /\ resp.location = <<"/">>

(***************************************************************************)
(* Profile updates.                                                        *)
(***************************************************************************)
WrongPasswordChangesNothing ==
    \A form \in AllForms :
        (/\ GUser # NoUser
         /\ ~CheckHash(users[GUser].password, form.password)
         /\ update_profile("POST", TRUE, form))
        => /\ resp'.status = 200
           /\ resp'.template = "users/edit.html"
           /\ resp'.errors = {"password"}
           /\ users' = users
           /\ session' = session

\* C14: a profile update whose password is not the logged-in user's is
\* answered with the edit form and an error on the password field; every
\* user, the logged-in one included, and the session stay as they were.
C14_WrongPasswordChangesNothing == [][WrongPasswordChangesNothing]_vars

\* one of two users sent a profile update with a wrong password and got the
\* password error
C14_Witness ==
    /\ Answered("update_profile")
    /\ resp.request.valid
    /\ resp.errors = {"password"}
    /\ GUser # NoUser
    /\ Cardinality(DOMAIN users) = 2

\* another user holds the username the form asks for
NameTaken(form) ==
    /\ form.username # users[GUser].username
    /\ \E u \in (DOMAIN users) \ {GUser} : users[u].username = form.username

\* another user holds the email the form asks for
MailTaken(form) ==
    /\ form.email # users[GUser].email
    /\ \E u \in (DOMAIN users) \ {GUser} : users[u].email = form.email

CollisionChangesNothing ==
    \A form \in AllForms :
        (/\ GUser # NoUser
         /\ CheckHash(users[GUser].password, form.password)
         /\ update_profile("POST", TRUE, form))
        => IF NameTaken(form) \/ MailTaken(form)
           THEN /\ resp'.status = 200
                /\ resp'.template = "users/edit.html"
                /\ resp'.errors =
                      (IF NameTaken(form) THEN {"username"} ELSE {})
                      \cup (IF MailTaken(form) THEN {"email"} ELSE {})
                /\ users' = users
                /\ session' = session
           ELSE /\ resp'.status = 302
                /\ resp'.errors = {}

\* C15: a profile update with the right password whose username differs from
\* the user's and is another user's, or whose email differs and is another
\* user's, is answered with the edit form, changes no user, and carries an
\* error on exactly the fields that collide; a form that repeats the user's
\* own username or email collides on neither and goes through.
C15_CollisionChangesNothing == [][CollisionChangesNothing]_vars

\* a profile update asked for the username and the email of the other user
\* and was answered with both errors
C15_Witness ==
    /\ Answered("update_profile")
    /\ resp.errors = {"username", "email"}
    /\ GUser # NoUser
    /\ Cardinality(DOMAIN users) = 2

UpdateApplied ==
    \A form \in AllForms :
        (/\ GUser # NoUser
         /\ CheckHash(users[GUser].password, form.password)
         /\ ~NameTaken(form)
         /\ ~MailTaken(form)
         /\ update_profile("POST", TRUE, form))
        => /\ resp'.status = 302
           /\ resp'.location = <<"users", GUser>>
           /\ DOMAIN users' = DOMAIN users
           /\ users'[GUser].username = form.username
           /\ users'[GUser].email = form.email
           /\ users'[GUser].location = form.location
           /\ users'[GUser].bio = form.bio
           /\ users'[GUser].image_url =
                 (IF form.image_url = "" THEN DEFAULT_IMAGE_URL
                                         ELSE form.image_url)
           /\ users'[GUser].header_image_url =
                 (IF form.header_image_url = "" THEN DEFAULT_HEADER_IMAGE_URL
                                                ELSE form.header_image_url)
           /\ users'[GUser].password = users[GUser].password
           /\ session' = session
           /\ \A u \in (DOMAIN users) \ {GUser} : users'[u] = users[u]

\* C16: a profile update with the right password and no collision writes
\* username, email, location, bio, picture and header picture in one step,
\* with the default URL for a picture field left blank; the password hash,
\* the user's id, the session and every other user stay as they were.
C16_UpdateApplied == [][UpdateApplied]_vars

\* a profile update with a picture, a bio and a location went through while
\* another user exists; the blank header picture became the default
C16_Witness ==
    /\ Answered("update_profile")
    /\ resp.status = 302
    /\ GUser # NoUser
    /\ Cardinality(DOMAIN users) = 2
    /\ users[GUser].bio = "bio"
    /\ users[GUser].location = "here"
    /\ users[GUser].image_url = "/static/images/new-pic.png"
    /\ users[GUser].header_image_url = DEFAULT_HEADER_IMAGE_URL

(***************************************************************************)
(* Login and logout.                                                       *)
(***************************************************************************)
\* the users with that username whose stored password that password matches
Matching(username, password) ==
    {u \in DOMAIN users : /\ users[u].username = username
                          /\ CheckHash(users[u].password, password)}

LoginExactlyWhenMatching ==
    \A username \in Usernames, password \in Passwords :
        login("POST", TRUE, username, password)
        => IF Matching(username, password) # {}
           THEN /\ session' \in Matching(username, password)
                /\ resp'.status = 302
           ELSE /\ session' = session
                /\ resp'.status = 200
                /\ resp'.flash = "Invalid credentials."
                /\ resp'.template = "users/login.html"
                /\ UNCHANGED db

FailedLoginsAlike ==
    \A username \in Usernames, password \in Passwords,
       other \in Usernames, wrong \in Passwords :
        (/\ Matching(username, password) = {}
         /\ Matching(other, wrong) = {}
         /\ login("POST", TRUE, username, password))
        => login("POST", TRUE, other, wrong)

\* C17: a login puts user u in the session exactly when the username is u's
\* and the password matches u's; any other login leaves session and store as
\* they were and is answered "Invalid credentials.", and the whole outcome of
\* a failed login is the same for an unknown username as for a known
\* username with a wrong password.
C17_LoginIndistinguishable ==
    [][LoginExactlyWhenMatching /\ FailedLoginsAlike]_vars

\* with one user signed up, so that the other username is unknown, a login
\* was turned down
C17_Witness ==
    /\ Answered("login")
    /\ resp.request.valid
    /\ resp.flash = "Invalid credentials."
    /\ Cardinality(DOMAIN users) = 1
    /\ {users[u].username : u \in DOMAIN users} # Usernames

LogoutClears ==
    (GUser # NoUser /\ logout(TRUE))
    => /\ resp'.status = 302
       /\ session' = NoUser
       /\ GUser' = NoUser
       /\ UNCHANGED db

DeleteUserClears ==
    (GUser # NoUser /\ delete_user(TRUE))
    => /\ resp'.status = 302
       /\ session' = NoUser
       /\ GUser' = NoUser

\* a session without a user gets one only from a signup or a login that was
\* answered with its redirect
StaysAnonymous ==
    GUser = NoUser
    => \/ GUser' = NoUser
       \/ /\ resp'.request.route \in {"signup", "login"}
          /\ resp'.request.valid
          /\ resp'.status = 302

AnonymousHome == (GUser = NoUser /\ homepage) => resp'.template = "home-anon.html"

\* C18: a logout and a delete-user that go through leave the session without
\* a user, and logout leaves the store as it was; from then on the session
\* has no user, and is served the anonymous homepage, until a signup or a
\* login on it goes through.
C18_LogoutClearsSession ==
    [][LogoutClears /\ DeleteUserClears /\ StaysAnonymous /\ AnonymousHome]_vars

\* a user who had posted logged out: the session is empty, the user and the
\* message are still there
C18_Witness ==
    /\ Answered("logout")
    /\ resp.status = 302
    /\ session = NoUser
    /\ DOMAIN users # {}
    /\ DOMAIN messages # {}

(***************************************************************************)
(* Requests without a valid anti-forgery token.                            *)
(***************************************************************************)
\* the answer is 401 and neither the store nor the session changed
Refused ==
    /\ resp'.status = 401
    /\ UNCHANGED <<db, session>>

\* the form is shown again and the store did not change
FormAgain(template) ==
    /\ resp'.status = 200
    /\ resp'.template = template
    /\ resp'.flash = ""
    /\ UNCHANGED db

\* the routes that read the token from g.csrf_form
TokenRoutesRefuse ==
    /\ On("logout", logout(FALSE)) => Refused
    /\ On("delete_user", delete_user(FALSE)) => Refused
    /\ \A follow_id \in UserIds :
          /\ On("start_following", start_following(FALSE, follow_id)) => Refused
          /\ On("stop_following", stop_following(FALSE, follow_id)) => Refused
    /\ \A message_id \in MessageIds :
          /\ On("delete_message", delete_message(FALSE, message_id)) => Refused
          /\ On("like_message", like_message(FALSE, message_id)) => Refused
          /\ On("unlike_message", unlike_message(FALSE, message_id)) => Refused

\* the routes that carry a form of their own
FormRoutesShowFormAgain ==
    /\ \A username \in Usernames, email \in Emails, password \in Passwords :
          On("signup", signup("POST", FALSE, username, email, password, ""))
             => FormAgain("users/signup.html") /\ session' = NoUser
    /\ \A username \in Usernames, password \in Passwords :
          On("login", login("POST", FALSE, username, password))
             => FormAgain("users/login.html") /\ session' = session
    /\ \A form \in PairedForms :
          On("update_profile", update_profile("POST", FALSE, form))
             => IF GUser = NoUser THEN Refused
                ELSE FormAgain("users/edit.html") /\ session' = session
    /\ \A text \in Texts :
          On("add_message", add_message("POST", FALSE, text))
             => IF GUser = NoUser THEN Refused
                ELSE FormAgain("messages/create.html") /\ session' = session

FormRoutesRefuse ==
    /\ \A username \in Usernames, email \in Emails, password \in Passwords :
          On("signup", signup("POST", FALSE, username, email, password, "")) => Refused
    /\ \A username \in Usernames, password \in Passwords :
          On("login", login("POST", FALSE, username, password)) => Refused
    /\ \A form \in PairedForms :
          On("update_profile", update_profile("POST", FALSE, form)) => Refused
    /\ \A text \in Texts : On("add_message", add_message("POST", FALSE, text)) => Refused

\* C19 as stated: every POST route answers a request without a valid token
\* with 401 and changes nothing, logged in or not.
C19_Original == [][TokenRoutesRefuse /\ FormRoutesRefuse]_vars

\* C19: without a valid token, logout, follow, stop-following, delete user,
\* delete message, like and unlike answer 401 and change neither store nor
\* session, logged in or not; signup, login, profile edit and new message
\* change nothing in the store and show their form again (profile edit and
\* new message answer 401 without a login), and signup leaves the session
\* without a user.
C19_NoTokenNoChange == [][TokenRoutesRefuse /\ FormRoutesShowFormAgain]_vars

\* a logged-in user asked to like somebody else's message without a valid
\* token: 401, and the message has no like
C19_Witness ==
    /\ Answered("like_message")
    /\ ~resp.request.valid
    /\ resp.status = 401
    /\ GUser # NoUser
    /\ resp.request.args[1] \in DOMAIN messages
    /\ messages[resp.request.args[1]].user_id # GUser
    /\ likes = EmptyBag

(***************************************************************************)
(* Requests that fail.                                                     *)
(***************************************************************************)
\* the last response is a failure: Unauthorized, NotFound, or a signup or
\* profile update turned down for a username or email that is taken
Failed ==
    \/ resp.status \in {401, 404}
    \/ resp.flash = "Username or email already taken"
    \/ resp.errors \cap {"username", "email"} # {}

StoreUnchanged ==
    /\ users' = users
    /\ messages' = messages
    /\ follows' = follows
    /\ likes' = likes

\* C20 as stated: a request that fails leaves users, messages, follows, likes
\* and the logged-in user of the session as they were.
C20_Original == [][Failed' => StoreUnchanged /\ GUser' = GUser]_vars

\* C20: a request that fails leaves users, messages, follows and likes as
\* they were, and leaves the logged-in user of the session as it was unless
\* the request is a signup, which leaves the session without a user.
C20_FailureChangesNothing ==
    [][Failed' => /\ StoreUnchanged
                  /\ IF resp'.request.route = "signup"
                     THEN GUser' = NoUser
                     ELSE GUser' = GUser]_vars

\* with two users and a message in the store, a signup was turned down for
\* a taken username and the session has no user
C20_Witness ==
    /\ Answered("signup")
    /\ Failed
    /\ GUser = NoUser
    /\ Cardinality(DOMAIN users) = 2
    /\ DOMAIN messages # {}

(***************************************************************************)
(* Likes of deleted messages.                                              *)
(***************************************************************************)
LikesPointToMessages == \A e \in DOMAIN likes : e[2] \in DOMAIN messages

\* whatever removes a message removes the likes of it and no like of a
\* message that stays
DeletionTakesLikes ==
    LET removed == (DOMAIN messages) \ (DOMAIN messages')
    IN  removed # {}
        => /\ \A e \in DOMAIN likes' : e[2] \notin removed
           /\ \A e \in DOMAIN likes :
                 (e[2] \notin removed /\ e[1] \in DOMAIN users')
                    => Copies(likes', e) = likes[e]

\* C21: every like edge points to a message that is stored; a step that
\* deletes messages, by delete-message or by delete-user, leaves no like of
\* them and keeps the likes of the messages that stay.
C21_LikesPointToMessages == []LikesPointToMessages /\ [][DeletionTakesLikes]_vars

\* a message was deleted by its owner, no like points to it, and a like of
\* another message is still there
C21_Witness ==
    /\ Answered("delete_message")
    /\ resp.status = 302
    /\ resp.request.args[1] \notin DOMAIN messages
    /\ likes # EmptyBag
    /\ \A e \in DOMAIN likes : e[2] \in DOMAIN messages

(***************************************************************************)
(* The order of the feed.                                                  *)
(***************************************************************************)
\* most recent first, and of two messages of one timestamp the higher id
NewerFirst(a, b) ==
    \/ messages[a].timestamp > messages[b].timestamp
    \/ /\ messages[a].timestamp = messages[b].timestamp
       /\ a > b

\* the one feed the stored messages would determine
DeterminedFeed == Limit(SortSeq(RowSeq(Qualifying), NewerFirst))

\* C22 as stated: the feed served is determined by the stored messages: most
\* recent first, equal timestamps by higher id first, cut after 100; so the
\* same state always gives the same feed and the same cut.
C22_Original == HomeFeed => resp.feed = DeterminedFeed

(***************************************************************************)
(* Requests that race for a username or an email.                          *)
(***************************************************************************)
\* another user holds the username or the email the request in flight is
\* about to commit
Overtaken(p) ==
    \E u \in (DOMAIN users) \ {p.user} :
        \/ users[u].username = p.form.username
        \/ users[u].email = p.form.email

\* no two users hold one username or one email, whatever the interleaving
AtMostOneTakes ==
    \A u \in DOMAIN users, v \in DOMAIN users :
        u # v => /\ users[u].username # users[v].username
                 /\ users[u].email # users[v].email

\* a signup that loses is told that the username or the email is taken
SignupLoserIsTold ==
    \A username \in Usernames, email \in Emails :
        (/\ ~Unheld(username, email)
         /\ signup("POST", TRUE, username, email, "password", ""))
        => /\ resp'.status = 200
           /\ resp'.flash = "Username or email already taken"
           /\ UNCHANGED users

\* a profile update that loses is shown its form with the error on the field
UpdateLoserIsTold ==
    \A p \in pending :
        (Overtaken(p) /\ update_profile_commit(p))
        => /\ resp'.status = 200
           /\ resp'.errors \cap {"username", "email"} # {}
           /\ UNCHANGED users

\* C23 as stated: when requests race for a username or an email, at most one
\* of them takes it, and the one that loses ends with the duplicate-credential
\* error shown to the user, never with an uncaught failure.
C23_Original ==
    /\ []AtMostOneTakes
    /\ [][SignupLoserIsTold /\ UpdateLoserIsTold]_vars

(***************************************************************************)
(* A session that outlives its user.                                       *)
(***************************************************************************)
\* the session holds the id of a user that is no longer in the store
Stale == session # NoUser /\ session \notin DOMAIN users

StaleIsDenied ==
    Stale =>
        \A csrf \in BOOLEAN :
            /\ \A text \in Texts :
                  On("add_message", add_message("POST", csrf, text)) => Refused
            /\ \A message_id \in MessageIds :
                  /\ On("delete_message", delete_message(csrf, message_id))
                        => Refused
                  /\ On("like_message", like_message(csrf, message_id))
                        => Refused
                  /\ On("unlike_message", unlike_message(csrf, message_id))
                        => Refused
            /\ \A follow_id \in UserIds :
                  /\ On("start_following", start_following(csrf, follow_id))
                        => Refused
                  /\ On("stop_following", stop_following(csrf, follow_id))
                        => Refused
            /\ \A form \in PairedForms :
                  On("update_profile", update_profile("POST", csrf, form))
                     => Refused
            /\ On("delete_user", delete_user(csrf)) => Refused
            /\ On("logout", logout(csrf)) => Refused

\* the answer is the redirect to the homepage with the notice
Unauthorized ==
    /\ resp'.status = 302
    /\ resp'.location = <<"/">>
    /\ resp'.flash = "Access unauthorized."
    /\ resp'.template = ""
    /\ UNCHANGED <<db, session>>

StaleReadsRedirect ==
    Stale =>
        /\ On("list_users", list_users) => Unauthorized
        /\ \A user_id \in UserIds :
              /\ On("show_user", show_user(user_id)) => Unauthorized
              /\ On("show_following", show_following(user_id)) => Unauthorized
              /\ On("show_followers", show_followers(user_id)) => Unauthorized
              /\ On("show_liked_messages", show_liked_messages(user_id))
                    => Unauthorized
        /\ \A message_id \in MessageIds :
              On("show_message", show_message(message_id)) => Unauthorized

StaleHome ==
    (Stale /\ On("homepage", homepage))
    => /\ resp'.status = 200
       /\ resp'.template = "home-anon.html"
       /\ resp'.feed = <<>>
       /\ UNCHANGED <<db, session>>

\* the session stays as it is until a signup or a login answers on it
StaleStays ==
    Stale => \/ Stale' /\ session' = session
             \/ resp'.request.route \in {"signup", "login"}

\* C24: a session that holds the id of a user deleted from another session
\* of that user is served as an anonymous one on every later request: a
\* request to post, delete, like or unlike a message, to follow or stop
\* following, to edit the profile, to delete the user or to log out is
\* answered 401 and changes nothing, a gated read is answered with the
\* redirect and "Access unauthorized.", and the homepage is the anonymous one.
C24_StaleSessionIsAnonymous ==
    [][StaleIsDenied /\ StaleReadsRedirect /\ StaleHome /\ StaleStays]_vars

\* the account was deleted from another browser while another user and a
\* message remain, and a message posted on the left-over session with a
\* valid token was answered 401
C24_Witness ==
    /\ Stale
    /\ Answered("add_message")
    /\ resp.request.valid
    /\ resp.status = 401
    /\ DOMAIN users # {}
    /\ DOMAIN messages # {}

(***************************************************************************)
(* What a follow or a like request leaves alone.                           *)
(***************************************************************************)
\* the two tables hold every pair but that one as many times as before
OnlyEdge(before, after, e) ==
    \A x \in (DOMAIN before) \cup (DOMAIN after) :
        x # e => Copies(after, x) = Copies(before, x)

\* no user and no message is created, changed or deleted
NoRowTouched ==
    /\ users' = users
    /\ messages' = messages
    /\ next_user_id' = next_user_id
    /\ next_message_id' = next_message_id

FollowTouchesOneEdge ==
    \A csrf \in BOOLEAN, follow_id \in UserIds :
        (\/ On("start_following", start_following(csrf, follow_id))
         \/ On("stop_following", stop_following(csrf, follow_id)))
        => /\ OnlyEdge(follows, follows', <<GUser, follow_id>>)
           /\ \A e \in (DOMAIN follows) \cup (DOMAIN follows') :
                 e[1] # GUser => Copies(follows', e) = Copies(follows, e)
           /\ likes' = likes
           /\ NoRowTouched

LikeTouchesOneEdge ==
    \A csrf \in BOOLEAN, message_id \in MessageIds :
        (\/ On("like_message", like_message(csrf, message_id))
         \/ On("unlike_message", unlike_message(csrf, message_id)))
        => /\ OnlyEdge(likes, likes', <<GUser, message_id>>)
           /\ \A e \in (DOMAIN likes) \cup (DOMAIN likes') :
                 e[1] # GUser => Copies(likes', e) = Copies(likes, e)
           /\ follows' = follows
           /\ NoRowTouched

\* C25: a request to follow, to stop following, to like or to unlike changes
\* at most the one edge from the logged-in user to the target: no follow of
\* another follower and no like of another user is added or removed, the
\* other table is as it was, and no user and no message is created, changed
\* or deleted.
C25_OnlyOwnEdge == [][FollowTouchesOneEdge /\ LikeTouchesOneEdge]_vars

\* the logged-in user has just stopped following a user who still follows
\* them: the edge out is gone and the edge back is there
C25_Witness ==
    /\ Answered("stop_following")
    /\ resp.status = 302
    /\ GUser # NoUser
    /\ <<GUser, resp.request.args[1]>> \notin DOMAIN follows
    /\ <<resp.request.args[1], GUser>> \in DOMAIN follows

====
